---- MODULE Spec2Model ----
(***************************************************************************)
(* A model of src/index.py: the directory scanner thread, the coordination *)
(* queue, the polling loop of the UI thread, the index store and the file  *)
(* inspector.                                                              *)
(*                                                                         *)
(* A file or directory NAME is a sequence of tokens: the token "." is the  *)
(* extension separator character, every other token is a non-empty run of *)
(* characters that holds no separator.  A PATH is a sequence of names, the *)
(* first one being the current directory "." for the paths os.walk builds. *)
(***************************************************************************)
EXTENDS Integers, Sequences, FiniteSets, TLC

----------------------------------------------------------------------------
(* Bounds of the model *)

\* number of scans the user may start in one process
MaxScans == 2
\* the flat trees of BatchSpec hold up to MaxBatches full batches and a rest
MaxBatches == 2
\* jumps modelled between two file selections
MaxJumps == 2
\* files deleted from the tree in one process
MaxEdits == 1

----------------------------------------------------------------------------
(* Names *)

Dot == "."
CurDir == <<Dot>>

N1(a) == <<a>>
N2(a, b) == <<a, Dot, b>>
Hidden(a) == <<Dot, a>>

IGNORE_DIRS ==
    { Hidden("vscode"), Hidden("env"), N1("__pycache__"), Hidden("idea"),
      Hidden("git"), N1("node_modules"), N1("build"), N1("dist"),
      N1("venv"), N1("env"), N1("__MACOSX"), Hidden("pytest_cache"),
      Hidden("mypy_cache"), Hidden("jupyter"), N1("logs"), Hidden("docker") }

RecognizedExts == { <<Dot, "py">>, <<Dot, "md">> }

batch_size == 100

----------------------------------------------------------------------------
(* Syntax trees of file contents *)

Node(k, n, l, b) == [kind |-> k, name |-> n, lineno |-> l, body |-> b]
ClassDef(n, l, b) == Node("ClassDef", n, l, b)
FunctionDef(n, l, b) == Node("FunctionDef", n, l, b)
Stmt(l, b) == Node("Stmt", "", l, b)
Module(b) == Node("Module", "", 0, b)

\* a file's content: its text (a sequence, here of one identifier), whether
\* it decodes as utf-8, and its syntax tree, or NoTree when the text is no
\* Python program
NoTree == Node("SyntaxError", "", 0, <<>>)
Text(id, tree) == [text |-> <<id>>, decodable |-> TRUE, tree |-> tree]
Binary(id) == [text |-> <<id>>, decodable |-> FALSE, tree |-> NoTree]

\* the example of the documentation: class Foo at line 3, function bar at line 7
SrcFooBar == Text("foobar", Module(<<ClassDef("Foo", 3, <<>>), FunctionDef("bar", 7, <<>>)>>))
\* definitions nested in a class, and a class nested in a function
SrcNested ==
    Text("nested",
         Module(<< ClassDef("A", 1, << FunctionDef("m", 2, <<>>),
                                       ClassDef("Inner", 3, <<>>) >>),
                   FunctionDef("f", 5, << ClassDef("Local", 6, <<>>) >>),
                   Stmt(8, << FunctionDef("g", 9, <<>>) >>),
                   ClassDef("B", 11, << FunctionDef("m", 12, <<>>) >>) >>))
\* classes only
SrcNoFunc == Text("nofunc", Module(<<ClassDef("K", 1, <<>>), ClassDef("L", 4, <<>>)>>))
\* a method and a nested class that come before the top-level definitions
\* of the same names
SrcShadow ==
    Text("shadow",
         Module(<< ClassDef("A", 1, << FunctionDef("run", 2, <<>>),
                                       ClassDef("Cfg", 3, <<>>) >>),
                   FunctionDef("run", 5, <<>>),
                   ClassDef("Cfg", 7, <<>>) >>))
\* a markdown text: no Python program
SrcProse == Text("prose", NoTree)
SrcBlob == Binary("blob")

----------------------------------------------------------------------------
(* File systems: the tree under the working directory *)

File(n, c) == [name |-> n, content |-> c]
Dir(n, ds, fs) == [name |-> n, dirs |-> ds, files |-> fs]

\* the example of the documentation: a.py and .git/config
FsExample ==
    Dir(CurDir,
        << Dir(Hidden("git"), <<>>, << File(N1("config"), SrcProse) >>) >>,
        << File(N2("a", "py"), SrcFooBar) >>)

\* nested directories, with and without a namesake in the working directory
FsNested ==
    Dir(CurDir,
        << Dir(N1("sub"),
               << Dir(N1("pkg"), <<>>, << File(N2("deep", "py"), SrcNoFunc) >>),
                  Dir(N1("sub"), <<>>, << File(N2("c", "py"), SrcNested) >>),
                  Dir(N1("build"), <<>>, << File(N2("y", "py"), SrcFooBar) >>),
                  Dir(Hidden("git"), <<>>, << File(N2("h", "py"), SrcFooBar) >>) >>,
               << File(N2("b", "md"), SrcProse) >>),
           Dir(N1("build"), <<>>, << File(N2("x", "py"), SrcFooBar) >>) >>,
        <<>>)

\* a file without extension that bears the name of a directory of the
\* working directory, files with other extensions, one name in two places
FsDocs ==
    Dir(CurDir,
        << Dir(N1("docs"), <<>>, << File(N2("a", "py"), SrcNested) >>),
           Dir(N1("tools"), <<>>,
               << File(N1("docs"), SrcProse),
                  File(N2("B", "PY"), SrcFooBar),
                  File(Hidden("py"), SrcFooBar),
                  File(<<"t", Dot, "tar", Dot, "md">>, SrcBlob) >>) >>,
        << File(N2("a", "py"), SrcFooBar),
           File(N2("n", "txt"), SrcProse) >>)

\* no file to index at all
FsEmpty ==
    Dir(CurDir, << Dir(N1("venv"), <<>>, << File(N2("v", "py"), SrcFooBar) >>) >>,
        << File(N1("LICENSE"), SrcProse) >>)

\* one file with definitions that share a name
FsShadow == Dir(CurDir, <<>>, << File(N2("s", "py"), SrcShadow) >>)

FileSystems == { FsExample, FsNested, FsDocs, FsEmpty, FsShadow }

----------------------------------------------------------------------------
(* Paths and the ignore policy *)

\* os.path.join(dirpath, name)
join(dirpath, name) == Append(dirpath, name)

\* os.path.basename(path): the last component
basename(path) == IF path = <<>> THEN <<>> ELSE path[Len(path)]

\* the position of the last separator token of a name, 0 when it has none
LastDot(name) ==
    IF \E i \in 1..Len(name) : name[i] = Dot
    THEN CHOOSE i \in 1..Len(name) :
            /\ name[i] = Dot
            /\ \A j \in (i+1)..Len(name) : name[j] # Dot
    ELSE 0

\* os.path.splitext(name)[1]: the part from the last dot on, unless only
\* dots come before that dot (leading dots are part of the root)
splitext(name) ==
    LET d == LastDot(name)
    IN IF d > 0 /\ \E i \in 1..(d-1) : name[i] # Dot
       THEN SubSeq(name, d, Len(name))
       ELSE <<>>

RECURSIVE Resolve(_, _)
\* the directory a path relative to the working directory leads to, as a
\* one-element set, or the empty set when it leads to no directory
Resolve(dir, path) ==
    IF path = <<>> THEN {dir}
    ELSE IF Head(path) = CurDir THEN Resolve(dir, Tail(path))
    ELSE LET hit == { i \in 1..Len(dir.dirs) : dir.dirs[i].name = Head(path) }
         IN IF hit = {} THEN {}
            ELSE Resolve(dir.dirs[CHOOSE i \in hit : TRUE], Tail(path))

\* os.path.isdir(path), the path being taken relative to the working directory
isdir(cwd, path) == Resolve(cwd, path) # {}

\* a policy that looks at extensions only
should_ignore_by_ext(cwd, file_path) ==
    ~isdir(cwd, file_path) /\ splitext(basename(file_path)) \notin RecognizedExts

\* should_ignore(file_path) in the working directory cwd
should_ignore(cwd, file_path) ==
    LET base_name == basename(file_path)
        ext == splitext(base_name)
    IN IF isdir(cwd, file_path)
       THEN base_name \in IGNORE_DIRS
       ELSE ext \notin RecognizedExts

----------------------------------------------------------------------------
(* The walk *)

\* the argument the walk hands to should_ignore for an entry of dirpath:
\* the bare name of the entry, as os.walk lists it
IgnoreArg(dirpath, name) == <<name>>

\* dirnames[:] = [d for d in dirnames if not should_ignore(d)]
KeptDir(cwd, dirpath, d) == ~should_ignore(cwd, IgnoreArg(dirpath, d.name))

RECURSIVE walk(_, _, _), walkdirs(_, _, _)
\* os.walk, top-down, with the pruning of line 75 applied to every yield:
\* the sequence of <<dirpath, file>> of all files of the directories visited
walk(cwd, dirpath, dir) ==
    [ i \in 1..Len(dir.files) |-> <<dirpath, dir.files[i]>> ]
        \o walkdirs(cwd, dirpath, SelectSeq(dir.dirs, LAMBDA d : KeptDir(cwd, dirpath, d)))
walkdirs(cwd, dirpath, dirs) ==
    IF dirs = <<>> THEN <<>>
    ELSE walk(cwd, join(dirpath, Head(dirs).name), Head(dirs))
            \o walkdirs(cwd, dirpath, Tail(dirs))

\* the files the loop of lines 74-76 iterates over
WalkFiles(cwd) == walk(cwd, <<CurDir>>, cwd)

\* if should_ignore(file): continue
Retained(cwd, entry) == ~should_ignore(cwd, IgnoreArg(entry[1], entry[2].name))

\* nlp(file).vector, serialized: a function of the bare file name only
nlp(file) == [vector |-> file]
str(vector) == <<"[", vector, "]">>

\* the row of line 81
Row(entry) ==
    [ file_name |-> entry[2].name,
      file_path |-> join(entry[1], entry[2].name),
      vector    |-> str(nlp(entry[2].name).vector) ]

\* the ScanEvent of line 85
Event(entry) == << join(entry[1], entry[2].name), entry[2].name >>
None == <<>>

\* a directory of n files to index, between two files of another kind
FlatTree(n) ==
    Dir(CurDir, <<>>,
        << File(N2("first", "txt"), SrcProse) >>
        \o [ i \in 1..n |-> File(N2("f" \o ToString(i), "py"), SrcProse) ]
        \o << File(N2("last", "txt"), SrcProse) >>)

FlatSizes == { k * batch_size + r : k \in 0..MaxBatches, r \in {0, 1, batch_size - 1} }
FlatTrees == { FlatTree(n) : n \in FlatSizes }

----------------------------------------------------------------------------
(* The source parser *)

RECURSIVE ast_walk(_)
\* ast.walk: breadth first, from a queue of nodes still to yield
ast_walk(todo) ==
    IF todo = <<>> THEN <<>>
    ELSE <<Head(todo)>> \o ast_walk(Tail(todo) \o Head(todo).body)

NameLine(node) == <<node.name, node.lineno>>
Defs(nodes, kind) ==
    LET sel == SelectSeq(nodes, LAMBDA n : n.kind = kind)
    IN [ i \in 1..Len(sel) |-> NameLine(sel[i]) ]

\* parse_python_file on the content found at file_path (NoFile: open fails)
NoFile == [text |-> <<>>, decodable |-> FALSE, tree |-> NoTree]
parse_python_file(content) ==
    IF ~content.decodable \/ content.tree.kind # "Module"
    THEN [classes |-> <<>>, functions |-> <<>>]
    ELSE LET nodes == ast_walk(<<content.tree>>)
         IN [classes |-> Defs(nodes, "ClassDef"), functions |-> Defs(nodes, "FunctionDef")]

\* open(file_path): the content of the file a path names, NoFile if none
ReadFile(cwd, path) ==
    LET dirs == IF path = <<>> THEN {} ELSE Resolve(cwd, SubSeq(path, 1, Len(path) - 1))
    IN IF dirs = {} THEN NoFile
       ELSE LET d == CHOOSE x \in dirs : TRUE
                hit == { i \in 1..Len(d.files) : d.files[i].name = basename(path) }
            IN IF hit = {} THEN NoFile ELSE d.files[CHOOSE i \in hit : TRUE].content

RECURSIVE FilePaths(_, _)
\* the paths of all files of the tree under dir, whose own path is dirpath
FilePaths(dirpath, dir) ==
    { join(dirpath, dir.files[i].name) : i \in 1..Len(dir.files) }
        \cup UNION { FilePaths(join(dirpath, dir.dirs[i].name), dir.dirs[i]) :
                        i \in 1..Len(dir.dirs) }

RECURSIVE RemoveFile(_, _)
\* the tree without the file at the path rel, taken relative to dir
RemoveFile(dir, rel) ==
    IF Len(rel) = 1
    THEN [dir EXCEPT !.files = SelectSeq(@, LAMBDA f : f.name # rel[1])]
    ELSE [dir EXCEPT !.dirs =
            [ i \in 1..Len(dir.dirs) |->
                IF dir.dirs[i].name = rel[1]
                THEN RemoveFile(dir.dirs[i], Tail(rel))
                ELSE dir.dirs[i] ]]

\* {name: line for name, line in pairs}: a later pair overwrites an earlier one
Dict(pairs) ==
    [ n \in { pairs[i][1] : i \in 1..Len(pairs) } |->
        pairs[CHOOSE i \in 1..Len(pairs) :
                /\ pairs[i][1] = n
                /\ \A j \in (i+1)..Len(pairs) : pairs[j][1] # n][2] ]

Names(pairs) == [ i \in 1..Len(pairs) |-> pairs[i][1] ]

----------------------------------------------------------------------------
(* State *)

VARIABLES
    fs,                 \* the tree under the working directory
    schema,             \* the table file_structure exists
    store,              \* the rows of file_structure, in id order
    threads,            \* the scan threads started so far, by scan number
    started,            \* number of scans started
    queue,              \* the process-global queue
    queue_scan,         \* for each queue item, the scan that put it
    puts,               \* for each scan, the items it has put, in order
    stored,             \* for each scan, the rows it has committed, in order
    edits,              \* number of files deleted from the tree
    drained,            \* the scans whose sentinel check_queue has taken
    after,              \* root.after(100, check_queue) is pending
    scan_button,        \* state of the scan button
    file_tree,          \* the browse list
    file_path_entry,    \* the path field
    vector_value_text,  \* the vector view: state and content
    classes_listbox,    \* the class list
    functions_listbox,  \* the function list
    parsed,             \* classes, functions of the last parse (line 169)
    line_numbers,       \* the dicts bound to the two lists
    code_text,          \* the code view: state and content
    highlight,          \* the lines that carry the tag "highlight"
    seen,               \* the line code_text.see scrolled to last, 0 if none
    jumps,              \* jumps made since the last file selection
    outcome             \* how the last on_file_select ended

scanner == <<fs, schema, store, threads, started, queue, queue_scan, puts,
             stored, edits>>
coord == <<drained, after, scan_button, file_tree>>
inspector == <<file_path_entry, vector_value_text, classes_listbox,
               functions_listbox, parsed, line_numbers, code_text, highlight,
               seen, jumps, outcome>>
vars == <<scanner, coord, inspector>>

Scans == 1..MaxScans
\* a scan thread: where it is, the index of its next file in the walk, its
\* batch; and the error that ended the walk, with what the scan had
\* committed and put when the error was raised
NoThread == [pc |-> "none", pos |-> 1, files_to_insert |-> <<>>,
             error |-> "none", stored_before |-> <<>>, puts_before |-> <<>>]
\* the empty text
Empty == <<>>
NoDicts == [classes |-> <<>>, functions |-> <<>>]

InitState ==
    /\ schema = FALSE
    /\ store = <<>>
    /\ threads = [t \in Scans |-> NoThread]
    /\ started = 0
    /\ queue = <<>>
    /\ queue_scan = <<>>
    /\ puts = [t \in Scans |-> <<>>]
    /\ stored = [t \in Scans |-> <<>>]
    /\ edits = 0
    /\ drained = {}
    /\ after = TRUE
    /\ scan_button = "normal"
    /\ file_tree = <<>>
    /\ file_path_entry = Empty
    /\ vector_value_text = [state |-> "disabled", content |-> Empty]
    /\ classes_listbox = <<>>
    /\ functions_listbox = <<>>
    /\ parsed = NoDicts
    /\ line_numbers = NoDicts
    /\ code_text = [state |-> "normal", content |-> Empty]
    /\ highlight = {}
    /\ seen = 0
    /\ jumps = 0
    /\ outcome = "none"

Init == fs \in FileSystems /\ InitState

----------------------------------------------------------------------------
(* The scan coordinator *)

\* a button that is never disabled
update_scan_button_state_normal(is_scanning) == "normal"

\* update_scan_button_state(is_scanning)
update_scan_button_state(is_scanning) == IF is_scanning THEN "disabled" ELSE "normal"

\* threaded_scan_subdirectories: the command of the scan button, which a
\* disabled button does not invoke
threaded_scan_subdirectories ==
    /\ scan_button = "normal"
    /\ started < MaxScans
    /\ scan_button' = update_scan_button_state(TRUE)
    /\ started' = started + 1
    /\ threads' = [threads EXCEPT ![started + 1] = [NoThread EXCEPT !.pc = "schema"]]
    /\ UNCHANGED <<fs, schema, store, queue, queue_scan, puts, stored, edits>>
    /\ UNCHANGED <<drained, after, file_tree>>
    /\ UNCHANGED inspector

RECURSIVE drain_front(_, _, _)
\* a loop that inserts every entry at the top of the browse list
drain_front(q, qs, tree) ==
    IF q = <<>> THEN [queue |-> q, queue_scan |-> qs, file_tree |-> tree, sentinel |-> 0]
    ELSE IF Head(q) = None
    THEN [queue |-> Tail(q), queue_scan |-> Tail(qs), file_tree |-> tree, sentinel |-> Head(qs)]
    ELSE drain_front(Tail(q), Tail(qs),
                     <<[text |-> Head(q)[2], values |-> Head(q)[1]]>> \o tree)

RECURSIVE drain(_, _, _)
\* the loop of check_queue on the items q, put by the scans qs: what is left
\* of the queue, the browse list, and the scan of the sentinel taken (0: none)
drain(q, qs, tree) ==
    IF q = <<>> THEN [queue |-> q, queue_scan |-> qs, file_tree |-> tree, sentinel |-> 0]
    ELSE IF Head(q) = None
    THEN [queue |-> Tail(q), queue_scan |-> Tail(qs), file_tree |-> tree, sentinel |-> Head(qs)]
    ELSE drain(Tail(q), Tail(qs),
               Append(tree, [text |-> Head(q)[2], values |-> Head(q)[1]]))

\* the polling loop reschedules itself only from the handler of Empty
Reschedule(sentinel_taken) == ~sentinel_taken

\* check_queue, run by the event loop when its timer fires
check_queue ==
    /\ after
    /\ LET r == drain(queue, queue_scan, file_tree)
       IN /\ queue' = r.queue
          /\ queue_scan' = r.queue_scan
          /\ file_tree' = r.file_tree
          /\ scan_button' = IF r.sentinel # 0 THEN update_scan_button_state(FALSE)
                            ELSE scan_button
          /\ drained' = IF r.sentinel # 0 THEN drained \cup {r.sentinel} ELSE drained
          /\ after' = Reschedule(r.sentinel # 0)
    /\ UNCHANGED <<fs, schema, store, threads, started, puts, stored, edits>>
    /\ UNCHANGED inspector

----------------------------------------------------------------------------
(* The directory scanner: one thread per scan *)

\* queue.put(item) by scan t
Put(t, item) ==
    /\ queue' = Append(queue, item)
    /\ queue_scan' = Append(queue_scan, t)
    /\ puts' = [puts EXCEPT ![t] = Append(@, item)]

\* an insert that executes the statement for the first row only
insert_files_into_db_first(db, files_to_insert, failing) ==
    IF failing = 0 THEN db \o SubSeq(files_to_insert, 1, 1) ELSE db

\* an insert that skips the rows the table holds already
insert_files_into_db_unique(db, files_to_insert, failing) ==
    IF failing = 0
    THEN db \o SelectSeq(files_to_insert,
                         LAMBDA r : \A i \in 1..Len(db) : db[i] # r)
    ELSE db

\* an insert that commits the rows before the failing one
insert_files_into_db_partial(db, files_to_insert, failing) ==
    IF failing = 0 THEN db \o files_to_insert
    ELSE db \o SubSeq(files_to_insert, 1, failing - 1)

\* insert_files_into_db: executemany and commit in one transaction; when the
\* statement fails on row k the connection rolls back
insert_files_into_db(db, files_to_insert, failing) ==
    IF failing = 0 THEN db \o files_to_insert ELSE db

\* a scan whose except clause puts a sentinel of its own
ScanSchemaPutting(t) ==
    /\ threads[t].pc = "schema"
    /\ \E ok \in BOOLEAN :
        /\ schema' = (schema \/ ok)
        /\ threads' = IF ok THEN [threads EXCEPT ![t].pc = "walk"]
                       ELSE [threads EXCEPT ![t].pc = "finally",
                                            ![t].error = "schema"]
        /\ IF ok THEN UNCHANGED <<queue, queue_scan, puts>> ELSE Put(t, None)
    /\ UNCHANGED <<fs, store, started, stored, edits>>
    /\ UNCHANGED coord
    /\ UNCHANGED inspector

\* lines 68-72: CREATE TABLE IF NOT EXISTS, which may fail
ScanSchema(t) ==
    /\ threads[t].pc = "schema"
    /\ \E ok \in BOOLEAN :
        /\ schema' = (schema \/ ok)
        /\ threads' = IF ok THEN [threads EXCEPT ![t].pc = "walk"]
                       ELSE [threads EXCEPT ![t].pc = "finally",
                                            ![t].error = "schema"]
    /\ UNCHANGED <<fs, store, started, queue, queue_scan, puts, stored, edits>>
    /\ UNCHANGED coord
    /\ UNCHANGED inspector

\* where the thread goes after files_to_insert.append
AfterAppend(files_to_insert) ==
    IF Len(files_to_insert) >= batch_size THEN "insert" ELSE "put"

\* where the thread goes when the walk is over
AfterWalk(files_to_insert) ==
    IF files_to_insert # <<>> THEN "insert" ELSE "finally"

\* lines 74-82: the next file of the walk
ScanNextFile(t) ==
    /\ threads[t].pc = "walk"
    /\ LET th == threads[t]
           files == WalkFiles(fs)
       IN IF th.pos > Len(files)
          THEN threads' = [threads EXCEPT ![t].pc = AfterWalk(th.files_to_insert)]
          ELSE IF ~Retained(fs, files[th.pos])
          THEN threads' = [threads EXCEPT ![t].pos = th.pos + 1]
          ELSE LET batch == Append(th.files_to_insert, Row(files[th.pos]))
               IN threads' = [threads EXCEPT ![t].files_to_insert = batch,
                                             ![t].pc = AfterAppend(batch)]
    /\ UNCHANGED <<fs, schema, store, started, queue, queue_scan, puts, stored,
                   edits>>
    /\ UNCHANGED coord
    /\ UNCHANGED inspector

\* a flush that leaves the batch as it is
NotCleared(files_to_insert) == files_to_insert

\* what is left of the batch after a flush inside the loop
Cleared(files_to_insert) == <<>>

\* where an exception raised in the try block takes the thread: through the
\* except clause to the finally block
AfterError(pc) == "finally"

\* lines 83-84 inside the loop, line 87 after it: a flush, which may fail
ScanInsert(t) ==
    /\ threads[t].pc = "insert"
    /\ LET th == threads[t]
           atEnd == th.pos > Len(WalkFiles(fs))
       IN \E failing \in {0, 1, Len(th.files_to_insert)} :
            /\ store' = insert_files_into_db(store, th.files_to_insert, failing)
            /\ stored' = [stored EXCEPT ![t] =
                             insert_files_into_db(@, th.files_to_insert, failing)]
            /\ threads' =
                 IF failing # 0
                 THEN [threads EXCEPT ![t].pc = AfterError(th.pc),
                                      ![t].error = "insert",
                                      ![t].stored_before = stored[t],
                                      ![t].puts_before = puts[t]]
                 ELSE IF atEnd THEN [threads EXCEPT ![t].pc = "finally"]
                 ELSE [threads EXCEPT ![t].pc = "put",
                                      ![t].files_to_insert = Cleared(th.files_to_insert)]
    /\ UNCHANGED <<fs, schema, started, queue, queue_scan, puts, edits>>
    /\ UNCHANGED coord
    /\ UNCHANGED inspector

\* line 85: the ScanEvent of the file
ScanPut(t) ==
    /\ threads[t].pc = "put"
    /\ Put(t, Event(WalkFiles(fs)[threads[t].pos]))
    /\ threads' = [threads EXCEPT ![t].pc = "walk", ![t].pos = @ + 1]
    /\ UNCHANGED <<fs, schema, store, started, stored, edits>>
    /\ UNCHANGED coord
    /\ UNCHANGED inspector

\* what the finally block puts
Sentinel == None

\* line 91: the finally block
ScanFinally(t) ==
    /\ threads[t].pc = "finally"
    /\ Put(t, Sentinel)
    /\ threads' = [threads EXCEPT ![t].pc = "done"]
    /\ UNCHANGED <<fs, schema, store, started, stored, edits>>
    /\ UNCHANGED coord
    /\ UNCHANGED inspector

ScanStep(t) ==
    \/ ScanSchema(t)
    \/ ScanNextFile(t)
    \/ ScanInsert(t)
    \/ ScanPut(t)
    \/ ScanFinally(t)

----------------------------------------------------------------------------
(* The file inspector *)

NO_CLASSES == "[NO CLASSES IN FILE]"
NO_FUNCTIONS == "[NO FUNCTIONS IN FILE]"

\* widget.delete(start, END) of a text widget: a disabled widget ignores it
TextDelete(widget) ==
    IF widget.state = "normal" THEN [widget EXCEPT !.content = Empty] ELSE widget

\* SELECT file_path, vector FROM file_structure WHERE file_name=?, fetchone:
\* the matching rows in id order, of which the handler takes the first
find_by_name(db, file_name) == SelectSeq(db, LAMBDA r : r.file_name = file_name)

\* a list without placeholder
ListedBare(defs, placeholder) == Names(defs)

\* the list a listbox shows for the parsed definitions
Listed(defs, placeholder) == IF defs = <<>> THEN <<placeholder>> ELSE Names(defs)

\* on_file_select with the focus on entry i of the browse list
on_file_select(i) ==
    /\ i \in 1..Len(file_tree)
    /\ LET file_name == file_tree[i].text
           cleared == TextDelete(code_text)
           rows == IF schema THEN find_by_name(store, file_name) ELSE <<>>
       IN IF ~schema
          THEN \* the SELECT raises: the handler of line 199
               /\ file_path_entry' = Empty
               /\ vector_value_text' = [state |-> "disabled", content |-> Empty]
               /\ classes_listbox' = <<>>
               /\ functions_listbox' = <<>>
               /\ code_text' = cleared
               /\ outcome' = "caught"
               /\ UNCHANGED <<parsed, line_numbers>>
          ELSE IF rows = <<>>
          THEN /\ file_path_entry' = Empty
               /\ vector_value_text' = [state |-> "normal", content |-> Empty]
               /\ classes_listbox' = <<>>
               /\ functions_listbox' = <<>>
               /\ code_text' = cleared
               /\ outcome' = "absent"
               /\ UNCHANGED <<parsed, line_numbers>>
          ELSE LET row == rows[1]
                   content == ReadFile(fs, row.file_path)
                   p == parse_python_file(content)
               IN /\ file_path_entry' = row.file_path
                  /\ vector_value_text' = [state |-> "disabled", content |-> row.vector]
                  /\ parsed' = p
                  /\ classes_listbox' = Listed(p.classes, NO_CLASSES)
                  /\ functions_listbox' = Listed(p.functions, NO_FUNCTIONS)
                  /\ line_numbers' = [classes |-> Dict(p.classes),
                                      functions |-> Dict(p.functions)]
                  /\ code_text' = IF content.decodable
                                  THEN [state |-> "disabled", content |-> content.text]
                                  ELSE cleared
                  /\ outcome' = IF content.decodable THEN "found" ELSE "caught"
    /\ highlight' = {}
    /\ seen' = 0
    /\ jumps' = 0
    /\ UNCHANGED scanner
    /\ UNCHANGED coord

SelectFile == \E i \in 1..Len(file_tree) : on_file_select(i)

\* line_numbers.get(name)
Get(dict, name) == IF name \in DOMAIN dict THEN dict[name] ELSE 0

\* the tagged lines after tag_add("highlight", line.0, line.end)
tag_add(tagged, line_number) == tagged \cup {line_number}

\* jump_to_line(listbox, line_numbers) with entry i of the listbox selected
jump_to_line(listbox, dict, i) ==
    /\ i \in 1..Len(listbox)
    /\ jumps < MaxJumps
    /\ jumps' = jumps + 1
    /\ LET line_number == Get(dict, listbox[i])
       IN IF line_number # 0
          THEN /\ seen' = line_number
               /\ highlight' = tag_add(highlight, line_number)
          ELSE UNCHANGED <<seen, highlight>>
    /\ UNCHANGED <<file_path_entry, vector_value_text, classes_listbox,
                   functions_listbox, parsed, line_numbers, code_text, outcome>>
    /\ UNCHANGED scanner
    /\ UNCHANGED coord

JumpClass == \E i \in 1..Len(classes_listbox) :
                jump_to_line(classes_listbox, line_numbers.classes, i)
JumpFunction == \E i \in 1..Len(functions_listbox) :
                jump_to_line(functions_listbox, line_numbers.functions, i)

----------------------------------------------------------------------------
(* The environment *)

NoScanRunning == \A t \in Scans : threads[t].pc \in {"none", "done"}

\* a file of the tree is deleted on disk; the model lets the tree change
\* between scans only
DeleteFile ==
    /\ edits < MaxEdits
    /\ NoScanRunning
    /\ \E path \in FilePaths(<<CurDir>>, fs) : fs' = RemoveFile(fs, Tail(path))
    /\ edits' = edits + 1
    /\ UNCHANGED <<schema, store, threads, started, queue, queue_scan, puts, stored>>
    /\ UNCHANGED coord
    /\ UNCHANGED inspector

----------------------------------------------------------------------------
(* Specifications *)

Next ==
    \/ threaded_scan_subdirectories
    \/ DeleteFile
    \/ check_queue
    \/ \E t \in Scans : ScanStep(t)
    \/ SelectFile
    \/ JumpClass
    \/ JumpFunction

Spec == Init /\ [][Next]_vars

\* the event loop runs the callbacks it has scheduled and a started thread runs
FairSpec ==
    /\ Spec
    /\ WF_vars(check_queue)
    /\ \A t \in Scans : WF_vars(ScanStep(t))

\* the scanner alone on directories of many files
InitBatch == fs \in FlatTrees /\ InitState
NextBatch ==
    \/ threaded_scan_subdirectories
    \/ \E t \in Scans : ScanStep(t)
BatchSpec == InitBatch /\ [][NextBatch]_vars

----------------------------------------------------------------------------
(* Vocabulary of the properties *)

Running(t) == threads[t].pc \notin {"none", "done"}
Completed(t) == threads[t].pc = "done" /\ threads[t].error = "none"

RECURSIVE AllDirs(_, _)
\* every directory below dir, as <<path of its parent, directory>>
AllDirs(dirpath, dir) ==
    { <<dirpath, dir.dirs[i]>> : i \in 1..Len(dir.dirs) }
        \cup UNION { AllDirs(join(dirpath, dir.dirs[i].name), dir.dirs[i]) :
                        i \in 1..Len(dir.dirs) }

\* the path has a denylisted directory among its ancestors
UnderDenylisted(path) == \E i \in 1..(Len(path) - 1) : path[i] \in IGNORE_DIRS

\* the files the documentation wants indexed: a recognized extension and no
\* denylisted ancestor
Wanted(path) ==
    /\ splitext(basename(path)) \in RecognizedExts
    /\ ~UnderDenylisted(path)

\* the paths of the file events among the items
EventPaths(items) == { items[i][1] : i \in { j \in 1..Len(items) : items[j] # None } }
RowPaths(rows) == { rows[i].file_path : i \in 1..Len(rows) }

----------------------------------------------------------------------------
(* C1 *)

\* C1: every scan that was started has its terminal sentinel drained by the
\* polling loop in the end (which re-enables the scan button), the first
\* scan and every later one, whether the walk completes or aborts.
C1_EverySentinelDrained ==
    \A t \in Scans : (threads[t].pc # "none") ~> (t \in drained)

----------------------------------------------------------------------------
(* C2 *)

\* C2: when a scan has completed without error, every file with a recognized
\* extension and no denylisted ancestor, at any depth, has a row of that scan.
C2_EveryWantedFileIndexed ==
    \A t \in Scans :
        Completed(t) =>
            \A path \in FilePaths(<<CurDir>>, fs) :
                Wanted(path) => path \in RowPaths(stored[t])

----------------------------------------------------------------------------
(* C3 *)

\* C3: should_ignore, called as the walk calls it, is true of every
\* directory with a denylisted name, at any depth; no row, no event and no
\* browse entry names a file under a denylisted directory.
C3_DenylistedNeverEntered ==
    /\ \A e \in AllDirs(<<CurDir>>, fs) :
          e[2].name \in IGNORE_DIRS =>
              /\ should_ignore(fs, IgnoreArg(e[1], e[2].name))
              /\ ~KeptDir(fs, e[1], e[2])
    /\ \A path \in RowPaths(store) : ~UnderDenylisted(path)
    /\ \A t \in Scans : \A path \in EventPaths(puts[t]) : ~UnderDenylisted(path)
    /\ \A i \in 1..Len(file_tree) : ~UnderDenylisted(file_tree[i].values)

\* a scan has stored rows from a tree that holds, two levels down, a
\* denylisted directory with a .py file in it
C3_Witness ==
    /\ \E t \in Scans : Completed(t) /\ stored[t] # <<>>
    /\ \E e \in AllDirs(<<CurDir>>, fs) :
          /\ Len(e[1]) >= 2
          /\ e[2].name \in IGNORE_DIRS
          /\ \E i \in 1..Len(e[2].files) :
                splitext(e[2].files[i].name) \in RecognizedExts

----------------------------------------------------------------------------
(* C4 *)

\* C4: every row stored and every event emitted names a file whose
\* extension is .py or .md, whatever directories the working directory has.
C4_OnlyRecognizedExtensions ==
    /\ \A i \in 1..Len(store) : splitext(store[i].file_name) \in RecognizedExts
    /\ \A t \in Scans : \A path \in EventPaths(puts[t]) :
          splitext(basename(path)) \in RecognizedExts

----------------------------------------------------------------------------
(* C5 *)

\* C5: of the items a scan puts, only the last can be the sentinel; a scan
\* that has ended has put exactly one, a scan that has not has put none.
C5_OneSentinelLast ==
    \A t \in Scans :
        LET p == puts[t]
        IN /\ \A i \in 1..Len(p) : p[i] = None => i = Len(p)
           /\ threads[t].pc = "done" => (p # <<>> /\ p[Len(p)] = None)
           /\ threads[t].pc # "done" => \A i \in 1..Len(p) : p[i] # None

\* a scan aborted in the middle of the walk, after file events, has ended
C5_Witness ==
    \E t \in Scans :
        /\ threads[t].pc = "done"
        /\ threads[t].error = "insert"
        /\ threads[t].pos <= Len(WalkFiles(fs))
        /\ Len(puts[t]) >= 2

----------------------------------------------------------------------------
(* C6 *)

\* C6: at most one scan thread runs at a time, and the scan button is
\* disabled from the start of a scan until its sentinel has been drained.
C6_OneScanAtATime ==
    /\ Cardinality({ t \in Scans : Running(t) }) <= 1
    /\ \A t \in Scans :
          (threads[t].pc # "none" /\ t \notin drained) => scan_button = "disabled"
    /\ \A t \in Scans : Running(t) => ~ENABLED threaded_scan_subdirectories

\* a second scan runs after the first has ended
C6_Witness == threads[1].pc = "done" /\ Running(2)

----------------------------------------------------------------------------
(* C7 *)

\* C7: after the selection of a name that the index store does not hold,
\* every inspector view is empty: the path field, the vector view, the
\* class list, the function list and the code view.
C7_AbsentLeavesViewsEmpty ==
    outcome = "absent" =>
        /\ file_path_entry = Empty
        /\ vector_value_text.content = Empty
        /\ classes_listbox = <<>>
        /\ functions_listbox = <<>>
        /\ code_text.content = Empty

----------------------------------------------------------------------------
(* C8 *)

\* the line numbers of the pairs do not decrease
SourceOrder(pairs) ==
    \A i, j \in 1..Len(pairs) : i < j => pairs[i][2] <= pairs[j][2]

\* C8: for a displayed file, nested definitions included, the parsed class
\* list and function list are each in source order, and the two listboxes
\* show the names in that order.
C8_ListsInSourceOrder ==
    outcome = "found" =>
        /\ SourceOrder(parsed.classes)
        /\ SourceOrder(parsed.functions)
        /\ classes_listbox = Listed(parsed.classes, NO_CLASSES)
        /\ functions_listbox = Listed(parsed.functions, NO_FUNCTIONS)

----------------------------------------------------------------------------
(* C9 *)

RECURSIVE StoredUpTo(_)
\* the rows of the scans 1..n, scan after scan
StoredUpTo(n) == IF n = 0 THEN <<>> ELSE StoredUpTo(n - 1) \o stored[n]

\* C9: once a batch insert of a scan has failed, the scan has committed no
\* row beyond those it had committed before (none of the batch), it puts no
\* further file event, and the next and last item it puts is the sentinel.
C9_FailedInsertAborts ==
    /\ store = StoredUpTo(MaxScans)
    /\ \A t \in Scans :
          threads[t].error = "insert" =>
              /\ stored[t] = threads[t].stored_before
              /\ threads[t].pc \in {"finally", "done"}
              /\ puts[t] = IF threads[t].pc = "done"
                           THEN Append(threads[t].puts_before, None)
                           ELSE threads[t].puts_before

\* a flush failed in the middle of the walk, after an earlier batch had
\* been committed, and the scan has ended
C9_Witness ==
    \E t \in Scans :
        /\ threads[t].error = "insert"
        /\ threads[t].pc = "done"
        /\ threads[t].pos <= Len(WalkFiles(fs))
        /\ Len(stored[t]) = batch_size

----------------------------------------------------------------------------
(* C10 *)

\* one row per retained file of the walk, in walk order
ExpectedRows(cwd) ==
    LET kept == SelectSeq(WalkFiles(cwd), LAMBDA e : Retained(cwd, e))
    IN [ i \in 1..Len(kept) |-> Row(kept[i]) ]

\* C10: a scan that has completed without error has committed exactly one
\* row per retained file, for every number of retained files; the batch is
\* flushed and cleared when it reaches batch_size, so it never carries
\* batch_size rows into the next iteration.
C10_OneRowPerRetainedFile ==
    /\ store = StoredUpTo(MaxScans)
    /\ \A t \in Scans :
          /\ Completed(t) => stored[t] = ExpectedRows(fs)
          /\ Len(threads[t].files_to_insert) <= batch_size
          /\ threads[t].pc = "walk" => Len(threads[t].files_to_insert) < batch_size

\* a scan of a full batch and one more file has completed
C10_Witness ==
    \E t \in Scans :
        /\ Completed(t)
        /\ Len(ExpectedRows(fs)) = batch_size + 1
        /\ Len(stored[t]) = batch_size + 1

----------------------------------------------------------------------------
(* C11 *)

\* C11: when a batch insert succeeds, a lookup by name of each of the
\* batch's file names in the store as it then is returns a row, and the row
\* returned bears the name looked up, whatever the store held before.
C11_AppendThenFind ==
    [][ \A t \in Scans :
          (/\ threads[t].pc = "insert"
           /\ threads'[t].pc # "insert"
           /\ threads'[t].error = "none") =>
              \A i \in 1..Len(threads[t].files_to_insert) :
                  LET name == threads[t].files_to_insert[i].file_name
                      rows == find_by_name(store', name)
                  IN rows # <<>> /\ rows[1].file_name = name ]_vars

\* a batch has been committed to a store that held rows already
C11_Witness ==
    \E t \in Scans : stored[t] # <<>> /\ Len(store) > Len(stored[t])

----------------------------------------------------------------------------
(* C12 *)

\* the number of rows with the file name and the file path of r
CountOf(rows, r) ==
    Cardinality({ i \in 1..Len(rows) :
                    /\ rows[i].file_name = r.file_name
                    /\ rows[i].file_path = r.file_path })

\* C12: when two scans of an unchanged tree have both completed without
\* error (on a database that was empty before the first), the store holds,
\* for every file name and path, twice the rows it held after the first
\* scan: the second scan appends, it does not update, merge or delete.
C12_RescanDoubles ==
    (Completed(1) /\ Completed(2) /\ edits = 0) =>
        /\ stored[1] = ExpectedRows(fs)
        /\ Len(store) = 2 * Len(stored[1])
        /\ \A i \in 1..Len(store) :
              CountOf(store, store[i]) = 2 * CountOf(stored[1], store[i])
        /\ SubSeq(store, 1, Len(stored[1])) = stored[1]

\* two scans of a tree with several files to index have completed
C12_Witness ==
    Completed(1) /\ Completed(2) /\ edits = 0 /\ Len(stored[1]) >= 2

----------------------------------------------------------------------------
(* C13 *)

\* C13: after any jumps made while a file is displayed, exactly one line of
\* the code view carries the highlight: the line of the last jump.
C13_OneLineHighlighted ==
    (outcome = "found" /\ seen # 0) => highlight = {seen}

----------------------------------------------------------------------------
(* C14 *)

\* C14: between two runs of the selection handler the vector view is
\* read-only (disabled), however the last run ended.
C14_VectorViewReadOnly == vector_value_text.state = "disabled"

----------------------------------------------------------------------------
(* C15 *)

\* the rows whose file event the scan t has put
Announced(t, rows) ==
    \A i \in 1..Len(rows) : rows[i].file_path \in EventPaths(puts[t])

\* C15: when a scan is about to flush a batch, the event of every file of
\* the batch is on record as put; and a scan aborted by a failing flush has
\* put the event of every file it had added to the batch.
C15_EventBeforeFlush ==
    \A t \in Scans :
        /\ threads[t].pc = "insert" => Announced(t, threads[t].files_to_insert)
        /\ threads[t].error = "insert" => Announced(t, threads[t].files_to_insert)

----------------------------------------------------------------------------
(* C16 *)

\* the name belongs to two or more of the definitions
Shared(pairs, name) ==
    Cardinality({ i \in 1..Len(pairs) : pairs[i][1] = name }) >= 2

\* the line of the definition of that name that comes last in the source
LastLine(pairs, name) ==
    LET lines == { pairs[i][2] : i \in { j \in 1..Len(pairs) : pairs[j][1] = name } }
    IN CHOOSE l \in lines : \A k \in lines : k <= l

\* C16: a jump from either list on a name that two definitions of that
\* kind share goes to the definition that comes later in the source.
C16_JumpToLaterDefinition ==
    [][ /\ \A i \in 1..Len(classes_listbox) :
              (/\ jump_to_line(classes_listbox, line_numbers.classes, i)
               /\ Shared(parsed.classes, classes_listbox[i])) =>
                  seen' = LastLine(parsed.classes, classes_listbox[i])
        /\ \A i \in 1..Len(functions_listbox) :
              (/\ jump_to_line(functions_listbox, line_numbers.functions, i)
               /\ Shared(parsed.functions, functions_listbox[i])) =>
                  seen' = LastLine(parsed.functions, functions_listbox[i]) ]_vars

----------------------------------------------------------------------------
(* C17 *)

\* the content cannot be parsed: it does not decode or is no Python program
Unparseable(content) == ~content.decodable \/ content.tree.kind # "Module"

\* the listbox shows the parsed names, or the placeholder alone if there are
\* none, and the placeholder has no line to jump to
ShowsNamesOrPlaceholder(listbox, defs, dict, placeholder) ==
    /\ listbox # <<>>
    /\ defs # <<>> => listbox = Names(defs)
    /\ defs = <<>> => (listbox = <<placeholder>> /\ Get(dict, placeholder) = 0)

\* C17: parse yields two empty sequences for a file that cannot be read or
\* parsed; while a file found in the index is displayed, each of the two
\* lists holds the parsed names or one placeholder; and selecting a
\* placeholder changes neither the scroll position nor the highlight.
C17_PlaceholdersAndNoRaise ==
    /\ [](/\ parse_python_file(NoFile) = NoDicts
          /\ \A path \in FilePaths(<<CurDir>>, fs) :
                Unparseable(ReadFile(fs, path)) =>
                    parse_python_file(ReadFile(fs, path)) = NoDicts
          /\ file_path_entry # Empty =>
                /\ ShowsNamesOrPlaceholder(classes_listbox, parsed.classes,
                                           line_numbers.classes, NO_CLASSES)
                /\ ShowsNamesOrPlaceholder(functions_listbox, parsed.functions,
                                           line_numbers.functions, NO_FUNCTIONS))
    /\ [][ /\ \A i \in 1..Len(classes_listbox) :
                 (/\ classes_listbox[i] = NO_CLASSES
                  /\ jump_to_line(classes_listbox, line_numbers.classes, i)) =>
                     UNCHANGED <<seen, highlight>>
           /\ \A i \in 1..Len(functions_listbox) :
                 (/\ functions_listbox[i] = NO_FUNCTIONS
                  /\ jump_to_line(functions_listbox, line_numbers.functions, i)) =>
                     UNCHANGED <<seen, highlight>> ]_vars

\* a file found in the index shows both placeholders and one was selected
C17_Witness ==
    /\ file_path_entry # Empty
    /\ classes_listbox = <<NO_CLASSES>>
    /\ functions_listbox = <<NO_FUNCTIONS>>
    /\ jumps > 0
    /\ seen = 0

----------------------------------------------------------------------------
(* C18 *)

RECURSIVE PutsUpTo(_)
\* the items put by the scans 1..n, scan after scan
PutsUpTo(n) == IF n = 0 THEN <<>> ELSE PutsUpTo(n - 1) \o puts[n]

\* the file events among the items, in order
FileEvents(items) == SelectSeq(items, LAMBDA item : item # None)

\* C18: the browse list is, entry by entry, a prefix of the file events put
\* so far, in the order they were put: one entry at most per event, none
\* for a sentinel.
C18_BrowseListIsPrefix ==
    LET events == FileEvents(PutsUpTo(MaxScans))
    IN /\ Len(file_tree) <= Len(events)
       /\ \A i \in 1..Len(file_tree) :
             /\ file_tree[i].text = events[i][2]
             /\ file_tree[i].values = events[i][1]
       /\ PutsUpTo(MaxScans) =
             SubSeq(PutsUpTo(MaxScans), 1, Len(PutsUpTo(MaxScans)) - Len(queue)) \o queue

\* several entries are listed, a sentinel has been drained and events of a
\* later scan wait on the queue
C18_Witness ==
    /\ Len(file_tree) >= 2
    /\ drained # {}
    /\ FileEvents(queue) # <<>>

----------------------------------------------------------------------------
(* C19 *)

\* C19: once the scan that listed the entries has completed without error,
\* selecting an entry of the browse list shows in the path field the path
\* the entry was listed with, also when files of several directories share
\* its name.
C19_SelectedShowsListedPath ==
    [][ \A i \in 1..Len(file_tree) :
          (Completed(1) /\ on_file_select(i)) =>
              file_path_entry' = file_tree[i].values ]_vars

====
